---- MODULE Spec2Model ----
(***************************************************************************)
(* Model of rclcpp_lifecycle::LifecycleService (lifecycle_service.hpp) and *)
(* rclcpp::experimental::SubscriptionIntraProcessBuffer                    *)
(* (subscription_intra_process_buffer.hpp).                                *)
(*                                                                         *)
(* SpecService drives one LifecycleService object through sequences of    *)
(* its public calls; `calls' records every call with what it returned,    *)
(* how many warnings it logged (warn) and what each invocation of the     *)
(* base class returned (base).  SpecBuffer does the same for one          *)
(* SubscriptionIntraProcessBuffer and the subscription that owns it.      *)
(***************************************************************************)
EXTENDS Integers, Sequences, FiniteSets

\* Longest sequence of calls made on the LifecycleService object.
MaxCalls == 6

\* Longest sequence of calls made on the SubscriptionIntraProcessBuffer object.
MaxBufCalls == 5

\* Number of threads that call the service concurrently.
NumThreads == 2

\* Number of calls these threads make in all.
MaxThreadCalls == 4

\* Number of producer threads that hand messages to the buffer concurrently.
NumProducers == 2

\* Number of messages the producer threads hand over in all.
MaxMessages == 3

\* Largest history depth (N of keep-last-N) a buffer is constructed with.
MaxDepth == 3

\* The rcl_wait_set_t pointers a caller may pass.
WaitSets == {"ws1", "ws2"}

VARIABLES
  enabled_,      \* LifecycleService::enabled_
  should_log_,   \* LifecycleService::should_log_
  calls,         \* the calls made so far on the service, oldest first
  buffer_,       \* SubscriptionIntraProcessBuffer::buffer_
  gc_,           \* SubscriptionIntraProcessBase::gc_, as the number of trigger() calls
  sub_enabled_,  \* activation flag of the subscription that owns the buffer
  bcalls,        \* the calls made so far on the buffer and its subscription
  holders,       \* for every message handed over, who holds a handle to it
  threads,       \* where each thread calling the service is in its call
  events,        \* what the threads did to and saw of the service, in order
  producers,     \* where each producer thread is in provide_intra_process_message
  appended,      \* the messages appended to the buffer by the producers, in order
  taken          \* the messages the consumer thread took, in order

svars == <<enabled_, should_log_, calls>>

bvars == <<buffer_, gc_, sub_enabled_, bcalls, holders>>

\* The variables of the multi-threaded runs of the service and of the buffer.
tvars == <<threads, events>>

pvars == <<producers, appended, taken>>

cvars == <<tvars, pvars>>

vars == <<enabled_, should_log_, calls, buffer_, gc_, sub_enabled_, bcalls, holders,
          threads, events, producers, appended, taken>>

----------------------------------------------------------------------------
\* LifecycleService

\* A constructor that starts with the warning already spent.
ServiceInit_quiet ==
  /\ enabled_ = FALSE
  /\ should_log_ = FALSE
  /\ calls = <<>>

\* The constructors: enabled_(false), should_log_(true).
ServiceInit ==
  /\ enabled_ = FALSE
  /\ should_log_ = TRUE
  /\ calls = <<>>

\* log_service_not_enabled() without the final should_log_ = false.
log_service_not_enabled_keeps_flag(sl) ==
  IF ~sl
    THEN [should_log_ |-> sl, warn |-> 0]
    ELSE [should_log_ |-> sl, warn |-> 1]

\* log_service_not_enabled(): the value of should_log_ it leaves and the
\* number of RCLCPP_WARN lines it writes, given should_log_ on entry.
log_service_not_enabled(sl) ==
  IF ~sl
    THEN [should_log_ |-> sl, warn |-> 0]
    ELSE [should_log_ |-> FALSE, warn |-> 1]

\* rclcpp::Service<ServiceT>::add_to_wait_set(wait_set): the base class
\* registers the service with the wait set and reports success or failure.
BaseResults == BOOLEAN

\* add_to_wait_set without the check of enabled_: always forwards.
add_to_wait_set_ungated(wait_set, base_ret) ==
  /\ Len(calls) < MaxCalls
  /\ calls' = Append(calls, [op |-> "add_to_wait_set", wait_set |-> wait_set,
                             ret |-> base_ret, warn |-> 0, base |-> <<base_ret>>])
  /\ UNCHANGED <<enabled_, should_log_, bvars, cvars>>

\* add_to_wait_set that calls the base class and returns true regardless.
add_to_wait_set_drops_result(wait_set, base_ret) ==
  /\ Len(calls) < MaxCalls
  /\ IF ~enabled_
       THEN LET r == log_service_not_enabled(should_log_) IN
            /\ should_log_' = r.should_log_
            /\ calls' = Append(calls, [op |-> "add_to_wait_set", wait_set |-> wait_set,
                                       ret |-> TRUE, warn |-> r.warn, base |-> <<>>])
       ELSE /\ should_log_' = should_log_
            /\ calls' = Append(calls, [op |-> "add_to_wait_set", wait_set |-> wait_set,
                                       ret |-> TRUE, warn |-> 0, base |-> <<base_ret>>])
  /\ UNCHANGED <<enabled_, bvars, cvars>>

\* bool add_to_wait_set(rcl_wait_set_t * wait_set); base_ret is what the base
\* class returns if it is reached.
add_to_wait_set(wait_set, base_ret) ==
  /\ Len(calls) < MaxCalls
  /\ IF ~enabled_
       THEN LET r == log_service_not_enabled(should_log_) IN
            /\ should_log_' = r.should_log_
            /\ calls' = Append(calls, [op |-> "add_to_wait_set", wait_set |-> wait_set,
                                       ret |-> TRUE, warn |-> r.warn, base |-> <<>>])
       ELSE /\ should_log_' = should_log_
            /\ calls' = Append(calls, [op |-> "add_to_wait_set", wait_set |-> wait_set,
                                       ret |-> base_ret, warn |-> 0, base |-> <<base_ret>>])
  /\ UNCHANGED <<enabled_, bvars, cvars>>

\* on_activate() that toggles enabled_ instead of setting it.
on_activate_toggles ==
  /\ Len(calls) < MaxCalls
  /\ enabled_' = ~enabled_
  /\ calls' = Append(calls, [op |-> "on_activate"])
  /\ UNCHANGED <<should_log_, bvars, cvars>>

\* on_activate() that also sets should_log_.
on_activate_rearms ==
  /\ Len(calls) < MaxCalls
  /\ enabled_' = TRUE
  /\ should_log_' = TRUE
  /\ calls' = Append(calls, [op |-> "on_activate"])
  /\ UNCHANGED <<bvars, cvars>>

\* void on_activate()
on_activate ==
  /\ Len(calls) < MaxCalls
  /\ enabled_' = TRUE
  /\ calls' = Append(calls, [op |-> "on_activate"])
  /\ UNCHANGED <<should_log_, bvars, cvars>>

\* on_deactivate() without should_log_ = true.
on_deactivate_no_rearm ==
  /\ Len(calls) < MaxCalls
  /\ enabled_' = FALSE
  /\ calls' = Append(calls, [op |-> "on_deactivate"])
  /\ UNCHANGED <<should_log_, bvars, cvars>>

\* void on_deactivate()
on_deactivate ==
  /\ Len(calls) < MaxCalls
  /\ enabled_' = FALSE
  /\ should_log_' = TRUE
  /\ calls' = Append(calls, [op |-> "on_deactivate"])
  /\ UNCHANGED <<bvars, cvars>>

\* is_activated() that spends the warning.
is_activated_spends_warning ==
  /\ Len(calls) < MaxCalls
  /\ should_log_' = FALSE
  /\ calls' = Append(calls, [op |-> "is_activated", ret |-> enabled_])
  /\ UNCHANGED <<enabled_, bvars, cvars>>

\* bool is_activated()
is_activated ==
  /\ Len(calls) < MaxCalls
  /\ calls' = Append(calls, [op |-> "is_activated", ret |-> enabled_])
  /\ UNCHANGED <<enabled_, should_log_, bvars, cvars>>

ServiceNext ==
  \/ \E ws \in WaitSets, b \in BaseResults : add_to_wait_set(ws, b)
  \/ on_activate
  \/ on_deactivate
  \/ is_activated

----------------------------------------------------------------------------
\* LifecycleService called from several threads.  enabled_ and should_log_
\* are plain bool members and no member function takes a lock, so the reads
\* and writes of the calls interleave; every step below is one read or one
\* write of a member, or one call out of the class.

Threads == 1..NumThreads

\* Number of calls made by the threads 1..n.
RECURSIVE CallsMade(_)
CallsMade(n) == IF n = 0 THEN 0 ELSE threads[n].calls + CallsMade(n - 1)

\* Thread t is between calls and there are calls left to make.
CanCall(t) ==
  /\ threads[t].pc = "idle"
  /\ CallsMade(NumThreads) < MaxThreadCalls

\* Thread t moves to pc, making a new call if it was idle.
Goto(t, pc) ==
  [threads EXCEPT ![t] = [pc |-> pc,
                          calls |-> IF threads[t].pc = "idle"
                                      THEN threads[t].calls + 1
                                      ELSE threads[t].calls]]

\* add_to_wait_set, line 129: if (!enabled_)
t_add_to_wait_set(t) ==
  /\ CanCall(t)
  /\ threads' = Goto(t, IF ~enabled_ THEN "log_service_not_enabled" ELSE "base")
  /\ UNCHANGED <<enabled_, should_log_, events, calls, bvars, pvars>>

\* add_to_wait_set, line 134: return rclcpp::Service<ServiceT>::add_to_wait_set(wait_set)
t_base_add_to_wait_set(t, base_ret) ==
  /\ threads[t].pc = "base"
  /\ events' = Append(events, [kind |-> "base", thread |-> t, enabled |-> enabled_,
                               ret |-> base_ret])
  /\ threads' = Goto(t, "idle")
  /\ UNCHANGED <<enabled_, should_log_, calls, bvars, pvars>>

\* log_service_not_enabled, line 151: if (!should_log_) return
t_log_check(t) ==
  /\ threads[t].pc = "log_service_not_enabled"
  /\ threads' = Goto(t, IF ~should_log_ THEN "idle" ELSE "warn")
  /\ UNCHANGED <<enabled_, should_log_, events, calls, bvars, pvars>>

\* log_service_not_enabled, line 156: RCLCPP_WARN
t_log_warn(t) ==
  /\ threads[t].pc = "warn"
  /\ events' = Append(events, [kind |-> "warn", thread |-> t, enabled |-> enabled_])
  /\ threads' = Goto(t, "stop_logging")
  /\ UNCHANGED <<enabled_, should_log_, calls, bvars, pvars>>

\* log_service_not_enabled, line 163: should_log_ = false
t_log_stop(t) ==
  /\ threads[t].pc = "stop_logging"
  /\ should_log_' = FALSE
  /\ threads' = Goto(t, "idle")
  /\ UNCHANGED <<enabled_, events, calls, bvars, pvars>>

\* on_activate, line 137: enabled_ = true
t_on_activate(t) ==
  /\ CanCall(t)
  /\ enabled_' = TRUE
  /\ events' = Append(events, [kind |-> "on_activate", thread |-> t])
  /\ threads' = Goto(t, "idle")
  /\ UNCHANGED <<should_log_, calls, bvars, pvars>>

\* on_deactivate, line 141: enabled_ = false
t_on_deactivate(t) ==
  /\ CanCall(t)
  /\ enabled_' = FALSE
  /\ events' = Append(events, [kind |-> "on_deactivate", thread |-> t])
  /\ threads' = Goto(t, "rearm")
  /\ UNCHANGED <<should_log_, calls, bvars, pvars>>

\* on_deactivate, line 142: should_log_ = true
t_on_deactivate_rearm(t) ==
  /\ threads[t].pc = "rearm"
  /\ should_log_' = TRUE
  /\ threads' = Goto(t, "idle")
  /\ UNCHANGED <<enabled_, events, calls, bvars, pvars>>

\* is_activated, line 145: return enabled_
t_is_activated(t) ==
  /\ CanCall(t)
  /\ events' = Append(events, [kind |-> "is_activated", thread |-> t, ret |-> enabled_])
  /\ threads' = Goto(t, "idle")
  /\ UNCHANGED <<enabled_, should_log_, calls, bvars, pvars>>

ThreadsNext ==
  \E t \in Threads :
    \/ t_add_to_wait_set(t)
    \/ \E b \in BaseResults : t_base_add_to_wait_set(t, b)
    \/ t_log_check(t)
    \/ t_log_warn(t)
    \/ t_log_stop(t)
    \/ t_on_activate(t)
    \/ t_on_deactivate(t)
    \/ t_on_deactivate_rearm(t)
    \/ t_is_activated(t)

\* The service just constructed, its threads about to start.
ThreadsInit ==
  /\ threads = [t \in Threads |-> [pc |-> "idle", calls |-> 0]]
  /\ events = <<>>
  /\ producers = <<>>
  /\ appended = <<>>
  /\ taken = <<>>

----------------------------------------------------------------------------
\* rclcpp::experimental::buffers::IntraProcessBuffer

\* The QoS profiles a buffer is constructed with: keep-all, or keep-last-N.
QoSProfiles ==
  {[history |-> "keep_all", depth |-> 0]} \cup
  {[history |-> "keep_last", depth |-> n] : n \in 1..MaxDepth}

\* rclcpp::IntraProcessBufferType
BufferTypes == {"SharedPtr", "UniquePtr"}

\* create_intra_process_buffer(buffer_type, qos, allocator): an empty queue
\* with the capacity policy of the QoS and the take mode of the buffer type.
create_intra_process_buffer(buffer_type, qos) ==
  [capacity_policy |-> qos.history,
   capacity |-> qos.depth,
   preferred_take_mode |-> IF buffer_type = "SharedPtr" THEN "shared" ELSE "owned",
   queue |-> <<>>]

\* Appending an envelope: at capacity under keep-last-N the head is evicted.
enqueue(buf, envelope) ==
  IF buf.capacity_policy = "keep_last" /\ Len(buf.queue) >= buf.capacity
    THEN [buf EXCEPT !.queue = Append(Tail(buf.queue), envelope)]
    ELSE [buf EXCEPT !.queue = Append(buf.queue, envelope)]

\* buffer_->add_shared(message)
add_shared(buf, message) == enqueue(buf, [message |-> message, variant |-> "shared"])

\* buffer_->add_unique(message)
add_unique(buf, message) == enqueue(buf, [message |-> message, variant |-> "owned"])

\* buffer_->consume(): the head entry and the buffer without it, or the
\* EmptyBuffer failure and the buffer as it was.
buffer_consume(buf) ==
  IF Len(buf.queue) = 0
    THEN [status |-> "EmptyBuffer", buffer |-> buf]
    ELSE [status |-> "ok", envelope |-> Head(buf.queue),
          buffer |-> [buf EXCEPT !.queue = Tail(buf.queue)]]

\* buffer_->has_data()
has_data(buf) == Len(buf.queue) > 0

\* buffer_->use_take_shared_method()
buffer_use_take_shared_method(buf) == buf.preferred_take_mode = "shared"

----------------------------------------------------------------------------
\* SubscriptionIntraProcessBuffer

\* The messages handed to the buffer so far, oldest first.
Provided(tr) ==
  SelectSeq(tr, LAMBDA c : c.op = "provide_intra_process_message")

\* Whether the buffer holds message m.
InQueue(buf, m) == \E i \in 1..Len(buf.queue) : buf.queue[i].message = m

\* The handles after the producer passed message m in and the buffer went
\* from before to after: a shared_ptr argument leaves the producer its
\* handle (producer_keeps), a unique_ptr argument is moved from; the buffer
\* holds what is in its queue.
handover(h, before, after, m, producer_keeps) ==
  [x \in DOMAIN h \cup {m} |->
     IF x = m
       THEN (IF producer_keeps THEN {"producer"} ELSE {}) \cup
            (IF InQueue(after, m) THEN {"buffer"} ELSE {})
       ELSE IF InQueue(before, x) /\ ~InQueue(after, x)
              THEN h[x] \ {"buffer"}
              ELSE h[x]]

\* The constructor, for every buffer type and QoS profile; the owning
\* subscription starts inactive.
BufferInit ==
  /\ \E buffer_type \in BufferTypes, qos \in QoSProfiles :
        buffer_ = create_intra_process_buffer(buffer_type, qos)
  /\ gc_ = 0
  /\ sub_enabled_ = FALSE
  /\ bcalls = <<>>
  /\ holders = <<>>

\* trigger_guard_condition(): gc_.trigger()
trigger_guard_condition(gc) == gc + 1

\* is_ready that reports data only while the subscription is activated.
is_ready_gated(wait_set) ==
  /\ Len(bcalls) < MaxBufCalls
  /\ bcalls' = Append(bcalls, [op |-> "is_ready", wait_set |-> wait_set,
                               activated |-> sub_enabled_,
                               ret |-> (sub_enabled_ /\ has_data(buffer_))])
  /\ UNCHANGED <<buffer_, gc_, sub_enabled_, holders, svars, cvars>>

\* is_ready that reports data whatever the buffer holds.
is_ready_always(wait_set) ==
  /\ Len(bcalls) < MaxBufCalls
  /\ bcalls' = Append(bcalls, [op |-> "is_ready", wait_set |-> wait_set,
                               activated |-> sub_enabled_,
                               ret |-> TRUE])
  /\ UNCHANGED <<buffer_, gc_, sub_enabled_, holders, svars, cvars>>

\* bool is_ready(rcl_wait_set_t * wait_set)
is_ready(wait_set) ==
  /\ Len(bcalls) < MaxBufCalls
  /\ bcalls' = Append(bcalls, [op |-> "is_ready", wait_set |-> wait_set,
                               activated |-> sub_enabled_,
                               ret |-> has_data(buffer_)])
  /\ UNCHANGED <<buffer_, gc_, sub_enabled_, holders, svars, cvars>>

\* The shared overload discarding the message while the subscription is
\* deactivated.
provide_intra_process_message_shared_gated(message) ==
  /\ Len(bcalls) < MaxBufCalls
  /\ buffer_' = IF sub_enabled_ THEN add_shared(buffer_, message) ELSE buffer_
  /\ gc_' = trigger_guard_condition(gc_)
  /\ bcalls' = Append(bcalls, [op |-> "provide_intra_process_message",
                               overload |-> "shared", message |-> message,
                               activated |-> sub_enabled_])
  /\ holders' = handover(holders, buffer_, buffer_', message, TRUE)
  /\ UNCHANGED <<sub_enabled_, svars, cvars>>

\* void provide_intra_process_message(ConstMessageSharedPtr message)
provide_intra_process_message_shared(message) ==
  /\ Len(bcalls) < MaxBufCalls
  /\ buffer_' = add_shared(buffer_, message)
  /\ gc_' = trigger_guard_condition(gc_)
  /\ bcalls' = Append(bcalls, [op |-> "provide_intra_process_message",
                               overload |-> "shared", message |-> message,
                               activated |-> sub_enabled_])
  /\ holders' = handover(holders, buffer_, buffer_', message, TRUE)
  /\ UNCHANGED <<sub_enabled_, svars, cvars>>

\* The owned overload without the trigger_guard_condition() call.
provide_intra_process_message_unique_silent(message) ==
  /\ Len(bcalls) < MaxBufCalls
  /\ buffer_' = add_unique(buffer_, message)
  /\ gc_' = gc_
  /\ bcalls' = Append(bcalls, [op |-> "provide_intra_process_message",
                               overload |-> "owned", message |-> message,
                               activated |-> sub_enabled_])
  /\ holders' = handover(holders, buffer_, buffer_', message, FALSE)
  /\ UNCHANGED <<sub_enabled_, svars, cvars>>

\* The owned overload discarding the message while the subscription is
\* deactivated.
provide_intra_process_message_unique_gated(message) ==
  /\ Len(bcalls) < MaxBufCalls
  /\ buffer_' = IF sub_enabled_ THEN add_unique(buffer_, message) ELSE buffer_
  /\ gc_' = trigger_guard_condition(gc_)
  /\ bcalls' = Append(bcalls, [op |-> "provide_intra_process_message",
                               overload |-> "owned", message |-> message,
                               activated |-> sub_enabled_])
  /\ holders' = handover(holders, buffer_, buffer_', message, FALSE)
  /\ UNCHANGED <<sub_enabled_, svars, cvars>>

\* The owned overload taking a copy of the handle instead of moving from it.
provide_intra_process_message_unique_copies(message) ==
  /\ Len(bcalls) < MaxBufCalls
  /\ buffer_' = add_unique(buffer_, message)
  /\ gc_' = trigger_guard_condition(gc_)
  /\ bcalls' = Append(bcalls, [op |-> "provide_intra_process_message",
                               overload |-> "owned", message |-> message,
                               activated |-> sub_enabled_])
  /\ holders' = handover(holders, buffer_, buffer_', message, TRUE)
  /\ UNCHANGED <<sub_enabled_, svars, cvars>>

\* void provide_intra_process_message(MessageUniquePtr message)
provide_intra_process_message_unique(message) ==
  /\ Len(bcalls) < MaxBufCalls
  /\ buffer_' = add_unique(buffer_, message)
  /\ gc_' = trigger_guard_condition(gc_)
  /\ bcalls' = Append(bcalls, [op |-> "provide_intra_process_message",
                               overload |-> "owned", message |-> message,
                               activated |-> sub_enabled_])
  /\ holders' = handover(holders, buffer_, buffer_', message, FALSE)
  /\ UNCHANGED <<sub_enabled_, svars, cvars>>

\* use_take_shared_method() answering from the entry at the head of the queue.
use_take_shared_method_by_head ==
  /\ Len(bcalls) < MaxBufCalls
  /\ bcalls' = Append(bcalls, [op |-> "use_take_shared_method",
                               ret |-> IF has_data(buffer_)
                                         THEN Head(buffer_.queue).variant = "shared"
                                         ELSE buffer_use_take_shared_method(buffer_)])
  /\ UNCHANGED <<buffer_, gc_, sub_enabled_, holders, svars, cvars>>

\* bool use_take_shared_method() const
use_take_shared_method ==
  /\ Len(bcalls) < MaxBufCalls
  /\ bcalls' = Append(bcalls, [op |-> "use_take_shared_method",
                               ret |-> buffer_use_take_shared_method(buffer_)])
  /\ UNCHANGED <<buffer_, gc_, sub_enabled_, holders, svars, cvars>>

\* LifecycleSubscriptionInterface::on_activate() of the owning subscription
sub_on_activate ==
  /\ Len(bcalls) < MaxBufCalls
  /\ sub_enabled_' = TRUE
  /\ bcalls' = Append(bcalls, [op |-> "on_activate"])
  /\ UNCHANGED <<buffer_, gc_, holders, svars, cvars>>

\* LifecycleSubscriptionInterface::on_deactivate() of the owning subscription
sub_on_deactivate ==
  /\ Len(bcalls) < MaxBufCalls
  /\ sub_enabled_' = FALSE
  /\ bcalls' = Append(bcalls, [op |-> "on_deactivate"])
  /\ UNCHANGED <<buffer_, gc_, holders, svars, cvars>>

\* The next message a producer publishes: messages are numbered in the order
\* in which they are handed to the buffer.
NextMessage == Len(Provided(bcalls)) + 1

BufferNext ==
  \/ \E ws \in WaitSets : is_ready(ws)
  \/ provide_intra_process_message_shared(NextMessage)
  \/ provide_intra_process_message_unique(NextMessage)
  \/ use_take_shared_method
  \/ sub_on_activate
  \/ sub_on_deactivate

\* The consumer taking the entry at the head of the queue.
consume ==
  /\ Len(bcalls) < MaxBufCalls
  /\ LET r == buffer_consume(buffer_) IN
       /\ buffer_' = r.buffer
       /\ IF r.status = "ok"
            THEN /\ bcalls' = Append(bcalls, [op |-> "consume", status |-> "ok",
                                              envelope |-> r.envelope])
                 /\ holders' = [holders EXCEPT ![r.envelope.message] =
                                  (@ \ {"buffer"}) \cup {"consumer"}]
            ELSE /\ bcalls' = Append(bcalls, [op |-> "consume", status |-> r.status])
                 /\ holders' = holders
  /\ UNCHANGED <<gc_, sub_enabled_, svars, cvars>>

\* Producers and one consumer that checks readiness and takes.
ConsumeNext ==
  \/ \E ws \in WaitSets : is_ready(ws)
  \/ provide_intra_process_message_shared(NextMessage)
  \/ provide_intra_process_message_unique(NextMessage)
  \/ consume

----------------------------------------------------------------------------
\* SubscriptionIntraProcessBuffer called from several producer threads, with
\* one consumer thread.  provide_intra_process_message is two calls in a
\* row, buffer_->add_*() and trigger_guard_condition(); each is one step.

Producers == 1..NumProducers

\* The message producer p hands over next.
NextOf(p) == [producer |-> p, seq |-> producers[p].sent + 1]

\* Producer p is between calls and has messages left to hand over.
CanProvide(p) ==
  /\ producers[p].pc = "idle"
  /\ Len(appended) < MaxMessages

\* The shared overload calling trigger_guard_condition() before
\* buffer_->add_shared().
p_add_shared_after_trigger(p) ==
  \/ /\ CanProvide(p)
     /\ gc_' = trigger_guard_condition(gc_)
     /\ producers' = [producers EXCEPT ![p].pc = "add_shared_late"]
     /\ UNCHANGED <<buffer_, appended, holders, sub_enabled_, bcalls, taken, svars, tvars>>
  \/ /\ producers[p].pc = "add_shared_late"
     /\ buffer_' = add_shared(buffer_, NextOf(p))
     /\ appended' = Append(appended, NextOf(p))
     /\ holders' = handover(holders, buffer_, buffer_', NextOf(p), TRUE)
     /\ producers' = [producers EXCEPT ![p] = [pc |-> "idle", sent |-> @.sent + 1]]
     /\ UNCHANGED <<gc_, sub_enabled_, bcalls, taken, svars, tvars>>

\* provide_intra_process_message(ConstMessageSharedPtr), line 89:
\* buffer_->add_shared(std::move(message))
p_add_shared(p) ==
  /\ CanProvide(p)
  /\ buffer_' = add_shared(buffer_, NextOf(p))
  /\ appended' = Append(appended, NextOf(p))
  /\ holders' = handover(holders, buffer_, buffer_', NextOf(p), TRUE)
  /\ producers' = [producers EXCEPT ![p] = [pc |-> "trigger", sent |-> @.sent + 1]]
  /\ UNCHANGED <<gc_, sub_enabled_, bcalls, taken, svars, tvars>>

\* The owned overload giving up when the consumer has not emptied the queue.
p_add_unique_unless_busy(p) ==
  /\ CanProvide(p)
  /\ buffer_' = IF has_data(buffer_) THEN buffer_ ELSE add_unique(buffer_, NextOf(p))
  /\ appended' = Append(appended, NextOf(p))
  /\ holders' = handover(holders, buffer_, buffer_', NextOf(p), FALSE)
  /\ producers' = [producers EXCEPT ![p] = [pc |-> "trigger", sent |-> @.sent + 1]]
  /\ UNCHANGED <<gc_, sub_enabled_, bcalls, taken, svars, tvars>>

\* provide_intra_process_message(MessageUniquePtr), line 96:
\* buffer_->add_unique(std::move(message))
p_add_unique(p) ==
  /\ CanProvide(p)
  /\ buffer_' = add_unique(buffer_, NextOf(p))
  /\ appended' = Append(appended, NextOf(p))
  /\ holders' = handover(holders, buffer_, buffer_', NextOf(p), FALSE)
  /\ producers' = [producers EXCEPT ![p] = [pc |-> "trigger", sent |-> @.sent + 1]]
  /\ UNCHANGED <<gc_, sub_enabled_, bcalls, taken, svars, tvars>>

\* provide_intra_process_message, lines 90 and 97: trigger_guard_condition()
p_trigger(p) ==
  /\ producers[p].pc = "trigger"
  /\ gc_' = trigger_guard_condition(gc_)
  /\ producers' = [producers EXCEPT ![p].pc = "idle"]
  /\ UNCHANGED <<buffer_, appended, holders, sub_enabled_, bcalls, taken, svars, tvars>>

\* The consumer thread: is_ready() said true, so it takes the head entry.
c_take ==
  /\ has_data(buffer_)
  /\ LET r == buffer_consume(buffer_) IN
       /\ buffer_' = r.buffer
       /\ taken' = Append(taken, r.envelope.message)
       /\ holders' = [holders EXCEPT ![r.envelope.message] =
                        (@ \ {"buffer"}) \cup {"consumer"}]
  /\ UNCHANGED <<gc_, producers, appended, sub_enabled_, bcalls, svars, tvars>>

ProducersNext ==
  \/ \E p \in Producers :
       \/ p_add_shared(p)
       \/ p_add_unique(p)
       \/ p_trigger(p)
  \/ c_take

\* The buffer just constructed, its producer threads about to start.
ProducersInit ==
  /\ producers = [p \in Producers |-> [pc |-> "idle", sent |-> 0]]
  /\ appended = <<>>
  /\ taken = <<>>
  /\ threads = <<>>
  /\ events = <<>>

----------------------------------------------------------------------------
\* A process in which one thread makes all the calls.
NoThreadsInit ==
  /\ threads = <<>>
  /\ events = <<>>
  /\ producers = <<>>
  /\ appended = <<>>
  /\ taken = <<>>

\* A process that holds a LifecycleService and no intra-process subscription.
NoBufferInit ==
  /\ buffer_ = "nullptr"
  /\ gc_ = 0
  /\ sub_enabled_ = FALSE
  /\ bcalls = <<>>
  /\ holders = <<>>

InitService == ServiceInit /\ NoBufferInit /\ NoThreadsInit

SpecService == InitService /\ [][ServiceNext]_vars

\* A process that holds an intra-process subscription next to a service that
\* is never called.
InitBuffer == ServiceInit /\ BufferInit /\ NoThreadsInit

SpecBuffer == InitBuffer /\ [][BufferNext]_vars

\* A process whose threads share one LifecycleService.
InitThreads == ServiceInit /\ NoBufferInit /\ ThreadsInit

SpecThreads == InitThreads /\ [][ThreadsNext]_vars

\* A process whose producer threads share one intra-process buffer.
InitProducers == ServiceInit /\ BufferInit /\ ProducersInit

SpecProducers == InitProducers /\ [][ProducersNext]_vars

\* The same process with a consumer taking from the buffer.
InitConsume == ServiceInit /\ BufferInit /\ NoThreadsInit

SpecConsume == InitConsume /\ [][ConsumeNext]_vars

----------------------------------------------------------------------------
\* Reading the record of calls on the service

\* Position of the last call among the first n that satisfies P, 0 if none.
LastAt(tr, n, P(_)) ==
  LET S == {i \in 1..n : P(tr[i])} IN
  IF S = {} THEN 0 ELSE CHOOSE i \in S : \A j \in S : j <= i

IsGateCall(c) == c.op \in {"on_activate", "on_deactivate"}

IsActivate(c) == c.op = "on_activate"

IsAdd(c) == c.op = "add_to_wait_set"

\* Whether the last of the first n calls that was on_activate() or
\* on_deactivate() was on_activate(); FALSE when there was none.
LastWasActivate(tr, n) ==
  LET g == LastAt(tr, n, IsGateCall) IN
  g # 0 /\ tr[g].op = "on_activate"

\* Warnings logged by the calls at positions from..to.
RECURSIVE WarningsIn(_, _, _)
WarningsIn(tr, from, to) ==
  IF from > to THEN 0
  ELSE (IF IsAdd(tr[to]) THEN tr[to].warn ELSE 0) + WarningsIn(tr, from, to - 1)

\* The step just taken was a call on the service named op.
ServiceCalled(op) ==
  /\ Len(calls') = Len(calls) + 1
  /\ calls'[Len(calls')].op = op

\* The names of the first n calls.
Ops(tr, n) == [i \in 1..n |-> tr[i].op]

----------------------------------------------------------------------------
\* C1: a new service is inactive, and every is_activated() call returns
\* true exactly when the last on_activate()/on_deactivate() call before it
\* was on_activate(); so repeating a call changes nothing.
C1_IsActivatedIsLastCall ==
  \A i \in 1..Len(calls) :
    calls[i].op = "is_activated" =>
      calls[i].ret = LastWasActivate(calls, i - 1)

\* Both calls repeated, each followed by the query.
C1_Witness ==
  /\ Len(calls) = 6
  /\ Ops(calls, 6) = <<"on_activate", "on_activate", "is_activated",
                       "on_deactivate", "on_deactivate", "is_activated">>
  /\ calls[3].ret = TRUE
  /\ calls[6].ret = FALSE

\* C2: a call of add_to_wait_set made while the service is inactive does
\* not reach the base class and returns true, whatever should_log_ is.
C2_InactiveNotForwarded ==
  [][(ServiceCalled("add_to_wait_set") /\ ~enabled_) =>
       LET c == calls'[Len(calls')] IN c.base = <<>> /\ c.ret = TRUE]_vars

\* Two calls in a row while inactive: the first with should_log_ set, the
\* second with should_log_ cleared.
C2_Witness ==
  /\ Len(calls) >= 2
  /\ ~enabled_
  /\ LET n == Len(calls) IN
       /\ IsAdd(calls[n - 1]) /\ IsAdd(calls[n])
       /\ calls[n - 1].warn = 1 /\ calls[n].warn = 0
       /\ calls[n - 1].ret /\ calls[n].ret
       /\ calls[n - 1].base = <<>> /\ calls[n].base = <<>>

\* C3: a call of add_to_wait_set made while the service is active invokes
\* the base class exactly once, returns what the base class returned, logs
\* no warning and leaves should_log_ as it was.
C3_ActiveDelegates ==
  [][(ServiceCalled("add_to_wait_set") /\ enabled_) =>
       LET c == calls'[Len(calls')] IN
         /\ Len(c.base) = 1
         /\ c.ret = c.base[1]
         /\ c.warn = 0
         /\ should_log_' = should_log_]_vars

\* Active calls that returned the base class's true and its false.
C3_Witness ==
  /\ enabled_
  /\ \E i, j \in 1..Len(calls) :
       /\ IsAdd(calls[i]) /\ calls[i].base = <<TRUE>> /\ calls[i].ret = TRUE
       /\ IsAdd(calls[j]) /\ calls[j].base = <<FALSE>> /\ calls[j].ret = FALSE

\* C4: of the add_to_wait_set calls that follow an on_deactivate() with no
\* on_activate()/on_deactivate() in between, the first logs exactly one
\* warning and every further one logs none; this holds again after a later
\* on_activate() followed by on_deactivate().
C4_OneWarningAfterDeactivate ==
  \A i, j \in 1..Len(calls) :
    (/\ i < j
     /\ calls[i].op = "on_deactivate"
     /\ IsAdd(calls[j])
     /\ \A k \in (i + 1)..(j - 1) : ~IsGateCall(calls[k]))
    => calls[j].warn =
         (IF \E k \in (i + 1)..(j - 1) : IsAdd(calls[k]) THEN 0 ELSE 1)

\* The scenario of the claim, call by call.
C4_Witness ==
  /\ Len(calls) = 6
  /\ Ops(calls, 6) = <<"on_deactivate", "add_to_wait_set", "add_to_wait_set",
                       "on_activate", "on_deactivate", "add_to_wait_set">>
  /\ calls[2].warn = 1
  /\ calls[3].warn = 0
  /\ calls[6].warn = 1

\* The calls from..to of an inactive stretch hold one warning if
\* add_to_wait_set was called among them.
OneWarningIfPolled(tr, from, to) ==
  WarningsIn(tr, from, to) =
    (IF \E k \in from..to : IsAdd(tr[k]) THEN 1 ELSE 0)

\* First call of the inactive period that call j lies in: the first call of
\* all if on_activate() was never called, else the call after the first
\* on_deactivate() that follows the last on_activate().
PeriodStart(tr, j) ==
  LET a == LastAt(tr, j, IsActivate) IN
  IF a = 0 THEN 1
  ELSE 1 + (CHOOSE d \in (a + 1)..j :
              /\ tr[d].op = "on_deactivate"
              /\ \A e \in (a + 1)..(d - 1) : tr[e].op # "on_deactivate")

\* C5 as stated: every inactive period (from construction or from the
\* on_deactivate() that ended an active period, up to the next on_activate())
\* holds exactly one warning if add_to_wait_set was called in it and none
\* otherwise, also across a repeated on_deactivate().
C5_OneWarningPerInactivePeriod ==
  \A j \in 1..Len(calls) :
    ~LastWasActivate(calls, j) =>
      OneWarningIfPolled(calls, PeriodStart(calls, j), j)

\* C5 amended: every stretch of calls that starts at construction or at an
\* on_deactivate() and holds no further on_activate()/on_deactivate() holds
\* exactly one warning if add_to_wait_set was called in it and none
\* otherwise; each on_deactivate() starts a new such stretch.
C5_OneWarningPerDeactivation ==
  \A j \in 1..Len(calls) :
    ~LastWasActivate(calls, j) =>
      OneWarningIfPolled(calls, LastAt(calls, j, IsGateCall) + 1, j)

\* An inactive period with on_deactivate() repeated in it: polled twice
\* before and twice after, one warning on each side.
C5_Witness ==
  /\ Len(calls) = 5
  /\ Ops(calls, 5) = <<"add_to_wait_set", "add_to_wait_set", "on_deactivate",
                       "add_to_wait_set", "add_to_wait_set">>
  /\ WarningsIn(calls, 1, 2) = 1
  /\ WarningsIn(calls, 4, 5) = 1

\* C6: on a new service the first add_to_wait_set returns true with one
\* warning; after on_activate() add_to_wait_set calls the base class once,
\* returns its result and logs nothing; after the following on_deactivate()
\* the next add_to_wait_set returns true with exactly one new warning.
C6_Scenario ==
  /\ (Len(calls) >= 1 /\ Ops(calls, 1) = <<"add_to_wait_set">>) =>
       /\ calls[1].ret = TRUE
       /\ calls[1].warn = 1
       /\ calls[1].base = <<>>
  /\ (Len(calls) >= 3
      /\ Ops(calls, 3) = <<"add_to_wait_set", "on_activate", "add_to_wait_set">>) =>
       /\ Len(calls[3].base) = 1
       /\ calls[3].ret = calls[3].base[1]
       /\ calls[3].warn = 0
  /\ (Len(calls) >= 5
      /\ Ops(calls, 5) = <<"add_to_wait_set", "on_activate", "add_to_wait_set",
                           "on_deactivate", "add_to_wait_set">>) =>
       /\ calls[5].ret = TRUE
       /\ calls[5].warn = 1
       /\ calls[5].base = <<>>
       /\ WarningsIn(calls, 1, 5) = 2

\* The whole scenario, with the base class reporting failure in the middle.
C6_Witness ==
  /\ Len(calls) = 5
  /\ Ops(calls, 5) = <<"add_to_wait_set", "on_activate", "add_to_wait_set",
                       "on_deactivate", "add_to_wait_set">>
  /\ calls[3].ret = FALSE
  /\ WarningsIn(calls, 1, 5) = 2

----------------------------------------------------------------------------
\* Reading the record of calls on the buffer

IsProvide(c) == c.op = "provide_intra_process_message"

\* The step just taken was a call on the buffer named op.
BufferCalled(op) ==
  /\ Len(bcalls') = Len(bcalls) + 1
  /\ bcalls'[Len(bcalls')].op = op

Min(a, b) == IF a <= b THEN a ELSE b

\* C7: every provide_intra_process_message call, of either overload and
\* whether the subscription is activated or not, triggers the guard
\* condition exactly once: the number of triggers is the number of
\* insertions made.
C7_OneTriggerPerInsertion ==
  gc_ = Len(Provided(bcalls))

\* Insertions of both overloads, made while activated and while not.
C7_Witness ==
  /\ gc_ >= 2
  /\ \E i, j \in 1..Len(bcalls) :
       /\ IsProvide(bcalls[i]) /\ bcalls[i].overload = "owned"
       /\ ~bcalls[i].activated
       /\ IsProvide(bcalls[j]) /\ bcalls[j].overload = "shared"
       /\ bcalls[j].activated

\* C8: is_ready returns true exactly when the queue is non-empty, whatever
\* the wait set and the activation state, and changes neither the queue nor
\* the guard condition.
C8_IsReadyIffNonEmpty ==
  [][BufferCalled("is_ready") =>
       /\ bcalls'[Len(bcalls')].ret = (buffer_.queue # <<>>)
       /\ buffer_' = buffer_
       /\ gc_' = gc_]_vars

\* is_ready answered false and true, to both wait sets, in both activation
\* states.
C8_Witness ==
  \E i, j, k \in 1..Len(bcalls) :
    /\ bcalls[i].op = "is_ready" /\ ~bcalls[i].ret
    /\ bcalls[j].op = "is_ready" /\ bcalls[j].ret
    /\ bcalls[k].op = "is_ready" /\ bcalls[k].ret
    /\ bcalls[j].wait_set # bcalls[k].wait_set
    /\ bcalls[j].activated # bcalls[k].activated

\* C9: a keep-last-N buffer that was handed k messages holds the last
\* min(k, N) of them in the order in which they were handed over, each as
\* the variant it was handed over as; an insertion can always be made; and
\* is_ready is true after every insertion.
C9_KeepLastN ==
  buffer_.capacity_policy = "keep_last" =>
    LET P == Provided(bcalls)
        k == Len(P)
        m == Min(k, buffer_.capacity)
    IN
      /\ Len(buffer_.queue) = m
      /\ \A i \in 1..m :
           /\ buffer_.queue[i].message = P[k - m + i].message
           /\ buffer_.queue[i].variant = P[k - m + i].overload
      /\ Len(bcalls) < MaxBufCalls =>
           /\ ENABLED provide_intra_process_message_shared(NextMessage)
           /\ ENABLED provide_intra_process_message_unique(NextMessage)
      /\ \A i \in 1..Len(bcalls) :
           (bcalls[i].op = "is_ready" /\ \E j \in 1..(i - 1) : IsProvide(bcalls[j]))
             => bcalls[i].ret = TRUE

\* N = 2 and three messages handed over: the first is gone.
C9_Witness ==
  /\ buffer_.capacity_policy = "keep_last"
  /\ buffer_.capacity = 2
  /\ Len(Provided(bcalls)) = 3
  /\ [i \in 1..Len(buffer_.queue) |-> buffer_.queue[i].message] = <<2, 3>>
  /\ bcalls[Len(bcalls)].op = "is_ready"

\* C10: every use_take_shared_method() call on a buffer returns the value
\* fixed when the buffer was constructed, whatever was inserted, queried or
\* activated in between and whatever the queue holds.
C10_TakeMethodConstant ==
  /\ \A i \in 1..Len(bcalls) :
       bcalls[i].op = "use_take_shared_method" =>
         bcalls[i].ret = (buffer_.preferred_take_mode = "shared")
  /\ \A i, j \in 1..Len(bcalls) :
       (bcalls[i].op = "use_take_shared_method" /\ bcalls[j].op = "use_take_shared_method")
         => bcalls[i].ret = bcalls[j].ret

\* The question asked before and after insertions of both variants and an
\* activation.
C10_Witness ==
  /\ Len(bcalls) = 5
  /\ bcalls[1].op = "use_take_shared_method"
  /\ bcalls[5].op = "use_take_shared_method"
  /\ \E i, j, k \in 2..4 :
       /\ IsProvide(bcalls[i]) /\ bcalls[i].overload = "shared"
       /\ IsProvide(bcalls[j]) /\ bcalls[j].overload = "owned"
       /\ bcalls[k].op = "on_activate"

----------------------------------------------------------------------------
\* C15: enabled_ changes only in on_activate() and on_deactivate():
\* add_to_wait_set, in either branch and whatever the base class returns,
\* and is_activated() leave it as it was, and is_activated() leaves
\* should_log_ as it was too.
C15_OnlyGateCallsChangeEnabled ==
  [][/\ enabled_' # enabled_ =>
          (ServiceCalled("on_activate") \/ ServiceCalled("on_deactivate"))
     /\ ServiceCalled("add_to_wait_set") => enabled_' = enabled_
     /\ ServiceCalled("is_activated") =>
          (enabled_' = enabled_ /\ should_log_' = should_log_)]_vars

\* add_to_wait_set has warned, has been refused by the base class, and
\* is_activated() has just been called with the warning armed.
C15_Witness ==
  /\ Len(calls) >= 4
  /\ calls[Len(calls)].op = "is_activated"
  /\ should_log_
  /\ \E i, j \in 1..Len(calls) :
       /\ IsAdd(calls[i]) /\ calls[i].warn = 1
       /\ IsAdd(calls[j]) /\ calls[j].base = <<FALSE>>

\* The envelopes a buffer holds after the calls of tr: all the messages
\* handed over under keep-all, the last N of them under keep-last-N.
ExpectedQueue(buf, tr) ==
  LET P == Provided(tr)
      k == Len(P)
      m == IF buf.capacity_policy = "keep_last" THEN Min(k, buf.capacity) ELSE k
  IN [i \in 1..m |-> [message |-> P[k - m + i].message,
                      variant |-> P[k - m + i].overload]]

\* C16: provide_intra_process_message appends the message whether the
\* subscription is activated or not and changes no activation or warning
\* state; on_activate()/on_deactivate() leave the queue as it is; so the
\* queue always holds what was handed over, less what the capacity policy
\* evicted, whatever the activation history.
C16_BufferingIgnoresActivation ==
  [][/\ BufferCalled("provide_intra_process_message") =>
          LET c == bcalls'[Len(bcalls')]
              q == buffer_'.queue
          IN /\ Len(q) > 0
             /\ q[Len(q)] = [message |-> c.message, variant |-> c.overload]
             /\ sub_enabled_' = sub_enabled_
             /\ enabled_' = enabled_
             /\ should_log_' = should_log_
     /\ (BufferCalled("on_activate") \/ BufferCalled("on_deactivate")) =>
          buffer_' = buffer_
     /\ buffer_'.queue = ExpectedQueue(buffer_', bcalls')]_vars

\* A message handed over during an inactive period that followed an active
\* one is still queued after the reactivation.
C16_Witness ==
  /\ Len(bcalls) = 4
  /\ Ops(bcalls, 4) = <<"on_activate", "on_deactivate",
                       "provide_intra_process_message", "on_activate">>
  /\ ~bcalls[3].activated
  /\ sub_enabled_
  /\ Len(buffer_.queue) = 1
  /\ buffer_.queue[1].message = bcalls[3].message

\* C17: on_activate() sets enabled_ and leaves should_log_; on_deactivate()
\* clears enabled_ and sets should_log_; either call made right after the
\* same call changes neither flag.
C17_GateCallsIdempotent ==
  [][/\ ServiceCalled("on_activate") =>
          (enabled_' = TRUE /\ should_log_' = should_log_)
     /\ ServiceCalled("on_deactivate") =>
          (enabled_' = FALSE /\ should_log_' = TRUE)
     /\ \A op \in {"on_activate", "on_deactivate"} :
          (Len(calls) > 0 /\ calls[Len(calls)].op = op /\ ServiceCalled(op)) =>
            (enabled_' = enabled_ /\ should_log_' = should_log_)]_vars

\* Both calls repeated, on_activate() with the warning spent.
C17_Witness ==
  /\ Len(calls) = 5
  /\ Ops(calls, 5) = <<"add_to_wait_set", "on_activate", "on_activate",
                       "on_deactivate", "on_deactivate">>
  /\ calls[1].warn = 1
  /\ ~enabled_
  /\ should_log_

----------------------------------------------------------------------------
\* C11: consuming when is_ready is false fails with EmptyBuffer, returns no
\* message and leaves the queue as it was; consuming when data is present
\* returns the entry at the head of the queue and removes it.
C11_ConsumeEmptyFails ==
  [][BufferCalled("consume") =>
       LET c == bcalls'[Len(bcalls')] IN
         /\ IF buffer_.queue = <<>>
              THEN /\ c.status = "EmptyBuffer"
                   /\ DOMAIN c = {"op", "status"}
                   /\ buffer_' = buffer_
              ELSE /\ c.status = "ok"
                   /\ c.envelope = Head(buffer_.queue)
                   /\ buffer_'.queue = Tail(buffer_.queue)
         /\ (Len(bcalls) > 0 /\ bcalls[Len(bcalls)].op = "is_ready") =>
              ((c.status = "EmptyBuffer") = ~bcalls[Len(bcalls)].ret)]_vars

\* A take refused on the empty buffer right after is_ready said false, then
\* two messages handed over and the older one taken.
C11_Witness ==
  /\ Len(bcalls) = 5
  /\ Ops(bcalls, 5) = <<"is_ready", "consume", "provide_intra_process_message",
                       "provide_intra_process_message", "consume">>
  /\ bcalls[2].status = "EmptyBuffer"
  /\ bcalls[5].status = "ok"
  /\ bcalls[5].envelope.message = bcalls[3].message
  /\ buffer_.capacity # 1

\* Number of takes that returned message m.
TimesTaken(tr, m) ==
  Cardinality({i \in 1..Len(tr) :
                 /\ tr[i].op = "consume"
                 /\ tr[i].status = "ok"
                 /\ tr[i].envelope.message = m})

\* C12: a message handed over through the owned overload has at most one
\* holder, who is never the producer; right after the call the buffer is its
\* only holder; and it is taken from the buffer at most once.
C12_OwnedHasOneHolder ==
  \A i \in 1..Len(bcalls) :
    (IsProvide(bcalls[i]) /\ bcalls[i].overload = "owned") =>
      LET m == bcalls[i].message IN
        /\ Cardinality(holders[m]) <= 1
        /\ "producer" \notin holders[m]
        /\ i = Len(bcalls) => holders[m] = {"buffer"}
        /\ TimesTaken(bcalls, m) <= 1
        /\ TimesTaken(bcalls, m) = 1 => holders[m] = {"consumer"}

\* An owned message taken by the consumer, with another one still queued.
C12_Witness ==
  /\ Len(bcalls) = 3
  /\ Ops(bcalls, 3) = <<"provide_intra_process_message",
                       "provide_intra_process_message", "consume">>
  /\ bcalls[1].overload = "owned"
  /\ bcalls[2].overload = "owned"
  /\ bcalls[3].status = "ok"
  /\ holders[bcalls[1].message] = {"consumer"}
  /\ holders[bcalls[2].message] = {"buffer"}

----------------------------------------------------------------------------
\* Reading the record of what the threads did

\* Whether the last write of enabled_ among the first n events wrote true.
LastWriteActivated(ev, n) ==
  LET g == LastAt(ev, n, LAMBDA e : e.kind \in {"on_activate", "on_deactivate"}) IN
  g # 0 /\ ev[g].kind = "on_activate"

\* C13: with several threads calling the service, no two warnings are
\* logged without an on_activate() or on_deactivate() between them, and
\* every is_activated() returns the value last written to enabled_.
C13_OneWarningUnderConcurrency ==
  /\ \A i, j \in 1..Len(events) :
       (i < j /\ events[i].kind = "warn" /\ events[j].kind = "warn") =>
         \E k \in (i + 1)..(j - 1) : events[k].kind \in {"on_activate", "on_deactivate"}
  /\ \A i \in 1..Len(events) :
       events[i].kind = "is_activated" =>
         events[i].ret = LastWriteActivated(events, i - 1)

\* C19: with add_to_wait_set running next to on_activate()/on_deactivate()
\* on another thread, the base class is invoked only at moments when
\* enabled_ is true and a warning is logged only at moments when it is false.
C19_CheckAndActAtomic ==
  \A i \in 1..Len(events) :
    /\ events[i].kind = "base" => events[i].enabled
    /\ events[i].kind = "warn" => ~events[i].enabled

----------------------------------------------------------------------------
\* Reading the record of what the producers appended and the consumer took

\* Position of message m in the sequence seq, 0 if it is not there.
PositionIn(seq, m) ==
  IF \E i \in 1..Len(seq) : seq[i] = m
    THEN CHOOSE i \in 1..Len(seq) : seq[i] = m
    ELSE 0

\* The messages in the queue, oldest first.
Queued(buf) == [i \in 1..Len(buf.queue) |-> buf.queue[i].message]

\* The appended messages that are neither queued nor taken.
Lost ==
  {appended[i] : i \in 1..Len(appended)} \
    ({taken[i] : i \in 1..Len(taken)} \cup
     {buffer_.queue[i].message : i \in 1..Len(buffer_.queue)})

\* C14: with several producers and one consumer, a producer can always
\* take its next step, every message handed over was appended, no message
\* is queued twice, the queue keeps each producer's messages in the order
\* sent, and the only messages neither queued nor taken are the oldest ones
\* of a full keep-last-N queue.
C14_ProducersNeverBlocked ==
  LET q == Queued(buffer_) IN
    /\ \A p \in Producers :
         /\ CanProvide(p) => (ENABLED p_add_shared(p) /\ ENABLED p_add_unique(p))
         /\ producers[p].pc = "trigger" => ENABLED p_trigger(p)
         /\ Cardinality({i \in 1..Len(appended) : appended[i].producer = p})
              = producers[p].sent
    /\ \A i, j \in 1..Len(q) : i < j =>
         /\ q[i] # q[j]
         /\ q[i].producer = q[j].producer => q[i].seq < q[j].seq
         /\ PositionIn(appended, q[i]) < PositionIn(appended, q[j])
    /\ \A i \in 1..Len(q) : PositionIn(appended, q[i]) # 0
    /\ Lost # {} =>
         /\ buffer_.capacity_policy = "keep_last"
         /\ Cardinality(Lost) <= Len(appended) - buffer_.capacity
         /\ \A m \in Lost : \A i \in 1..Len(q) :
              PositionIn(appended, m) < PositionIn(appended, q[i])

\* Two producers have handed over three messages, the oldest was evicted
\* and messages of both producers are queued, the second of the one after
\* the first of the other.
C14_Witness ==
  /\ Len(appended) = 3
  /\ Cardinality(Lost) = 1
  /\ Len(buffer_.queue) = 2
  /\ buffer_.queue[1].message.producer # buffer_.queue[2].message.producer
  /\ buffer_.queue[2].message.seq = 2

\* C18: the guard condition has never been triggered more often than
\* messages were appended, so as long as nothing was taken a trigger finds
\* the queue non-empty.
C18_AppendBeforeTrigger ==
  /\ gc_ <= Len(appended)
  /\ (gc_ > 0 /\ taken = <<>>) => buffer_.queue # <<>>

\* One producer has triggered, the other has appended and not yet triggered.
C18_Witness ==
  /\ gc_ = 1
  /\ Len(appended) = 2
  /\ taken = <<>>
  /\ \E p, r \in Producers :
       /\ producers[p] = [pc |-> "idle", sent |-> 1]
       /\ producers[r] = [pc |-> "trigger", sent |-> 1]

====
